---- MODULE Spec2Model ----
(***************************************************************************)
(* Model of the ACME natural-language API (src/main.py).                   *)
(*                                                                         *)
(* Texts (SQL statements, model completions) are sequences of one-char     *)
(* strings, so that strip(), lower(), startswith() and re.sub() are        *)
(* computed character by character as Python computes them.               *)
(*                                                                         *)
(* The handlers run in a thread pool, one thread per request: every        *)
(* request r has its own locals (req[r]); the only shared state is the     *)
(* database behind `engine` (db).  A handler is cut at its blocking calls  *)
(* (model API, database), which is where other requests can interleave.    *)
(***************************************************************************)
EXTENDS Integers, Sequences, FiniteSets, TLC

VARIABLES req, db, genRaw, genOut, genPc, resArgs, resPrompt, resPc

vars == <<req, db, genRaw, genOut, genPc, resArgs, resPrompt, resPc>>

(***************************************************************************)
(* Bounds                                                                  *)
(***************************************************************************)
NumReqs == 2        \* requests in flight
MaxRows == 11       \* largest result set the database returns
MaxChunks == 4      \* completions are built from at most this many chunks

Reqs == 1..NumReqs

(***************************************************************************)
(* Text helpers: Python str methods and re.sub                             *)
(***************************************************************************)
\* Characters are one-character strings.  A character that a TLA+ string
\* cannot hold is an atom named by its code point ("U+2003").  The texts of
\* the model are over this alphabet: printable ASCII, the 29 characters
\* str.strip() removes, Latin-1 U+00A1..U+00FF, KELVIN SIGN, capital I with
\* dot above, COMBINING DOT ABOVE and the Greek sigmas.
\* the backquote character U+0060
BQ == "bq"
VT == ""       \* U+000B
FS == ""       \* U+001C
GS == ""       \* U+001D
RS == ""       \* U+001E
US == ""       \* U+001F
NEL == ""      \* U+0085
NBSP == " "     \* U+00A0
OghamSpace == " "   \* U+1680

\* U+2000..U+200A, U+2028, U+2029, U+202F, U+205F, U+3000
UnicodeSpaces == {"U+2000", "U+2001", "U+2002", "U+2003", "U+2004", "U+2005", "U+2006", "U+2007",
                  "U+2008", "U+2009", "U+200A", "U+2028", "U+2029", "U+202F", "U+205F", "U+3000"}

\* the characters str.strip() removes (those with str.isspace())
WS == {" ", "\t", "\n", "\r", "\f", VT, FS, GS, RS, US, NEL, NBSP, OghamSpace}
      \cup UnicodeSpaces

\* the characters of the alphabet that str.lower() maps to one other character
UpperChars == <<"A", "B", "C", "D", "E", "F", "G", "H", "I", "J", "K", "L", "M",
                "N", "O", "P", "Q", "R", "S", "T", "U", "V", "W", "X", "Y", "Z",
                "À", "Á", "Â", "Ã", "Ä", "Å", "Æ", "Ç", "È", "É", "Ê", "Ë", "Ì",
                "Í", "Î", "Ï", "Ð", "Ñ", "Ò", "Ó", "Ô", "Õ", "Ö", "Ø", "Ù", "Ú",
                "Û", "Ü", "Ý", "Þ",
                "U+212A">>
LowerChars == <<"a", "b", "c", "d", "e", "f", "g", "h", "i", "j", "k", "l", "m",
                "n", "o", "p", "q", "r", "s", "t", "u", "v", "w", "x", "y", "z",
                "à", "á", "â", "ã", "ä", "å", "æ", "ç", "è", "é", "ê", "ë", "ì",
                "í", "î", "ï", "ð", "ñ", "ò", "ó", "ô", "õ", "ö", "ø", "ù", "ú",
                "û", "ü", "ý", "þ",
                "k">>

IDot == "U+0130"            \* LATIN CAPITAL LETTER I WITH DOT ABOVE
CombiningDot == "U+0307"    \* COMBINING DOT ABOVE
CapitalSigma == "Σ"
SmallSigma == "σ"
FinalSigma == "ς"

\* what str.lower() makes of the character c whatever is around it
LowerChar(c) ==
    IF \E i \in 1..Len(UpperChars) : UpperChars[i] = c
    THEN <<LowerChars[CHOOSE i \in 1..Len(UpperChars) : UpperChars[i] = c]>>
    ELSE IF c = IDot THEN <<"i", CombiningDot>>
    ELSE <<c>>

\* the characters of the alphabet with the Unicode property Case_Ignorable
CaseIgnorable == {"'", ".", ":", "^", BQ, "¨", "­", "¯", "´", "·", "¸", CombiningDot}

\* the characters of the alphabet with the Unicode property Cased
Cased == {UpperChars[i] : i \in 1..Len(UpperChars)}
         \cup {LowerChars[i] : i \in 1..Len(LowerChars)}
         \cup {"ª", "µ", "º", "ß", "ÿ",
               IDot, CapitalSigma, SmallSigma, FinalSigma}

\* the capital sigma at s[i] is final: going left over case-ignorable
\* characters there is a cased one, going right there is none
IsFinalSigma(s, i) ==
    /\ \E j \in 1..(i - 1) :
          /\ s[j] \in Cased \ CaseIgnorable
          /\ \A k \in (j + 1)..(i - 1) : s[k] \in CaseIgnorable
    /\ ~\E j \in (i + 1)..Len(s) :
          /\ s[j] \in Cased \ CaseIgnorable
          /\ \A k \in (i + 1)..(j - 1) : s[k] \in CaseIgnorable

\* str.lower()
RECURSIVE LowerFrom(_, _)
LowerFrom(s, i) ==
    IF i > Len(s) THEN <<>>
    ELSE (IF s[i] = CapitalSigma
          THEN (IF IsFinalSigma(s, i) THEN <<FinalSigma>> ELSE <<SmallSigma>>)
          ELSE LowerChar(s[i])) \o LowerFrom(s, i + 1)

Lower(s) == LowerFrom(s, 1)

\* str.strip()
Strip(s) ==
    LET keep == {i \in 1..Len(s) : s[i] \notin WS}
    IN  IF keep = {} THEN <<>>
        ELSE LET lo == CHOOSE i \in keep : \A j \in keep : i <= j
                 hi == CHOOSE i \in keep : \A j \in keep : j <= i
             IN  SubSeq(s, lo, hi)

\* str.startswith(p)
StartsWith(s, p) == Len(s) >= Len(p) /\ SubSeq(s, 1, Len(p)) = p

\* p in s
Contains(s, p) ==
    \E i \in 1..(Len(s) + 1) : StartsWith(SubSeq(s, i, Len(s)), p)

SelectKw == <<"s", "e", "l", "e", "c", "t">>
FenceSql == <<BQ, BQ, BQ, "s", "q", "l">>
Fence == <<BQ, BQ, BQ>>

\* re.sub(FenceSql | Fence, '', s): one left-to-right pass; at each position the
\* first alternative is tried before the second, matches do not overlap.
RECURSIVE ReSubFences(_)
ReSubFences(s) ==
    IF s = <<>> THEN <<>>
    ELSE IF StartsWith(s, FenceSql) THEN ReSubFences(SubSeq(s, Len(FenceSql) + 1, Len(s)))
    ELSE IF StartsWith(s, Fence) THEN ReSubFences(SubSeq(s, Len(Fence) + 1, Len(s)))
    ELSE <<s[1]>> \o ReSubFences(Tail(s))

\* generar_sql, lines 109-110: what is returned for the completion text raw
\* variant: the result of re.sub is returned untrimmed
PostProcess_noFinalStrip(raw) == ReSubFences(Strip(raw))

PostProcess(raw) == Strip(ReSubFences(Strip(raw)))


(***************************************************************************)
(* Request inputs and completions                                          *)
(***************************************************************************)
SelectOne == <<"S", "E", "L", "E", "C", "T", " ", "1">>
SqlDrop == <<"D", "R", "O", "P", " ", "T", "A", "B", "L", "E", " ", "c", "l", "i", "e", "n", "t", "e", "s">>
SqlSelectPadded == <<" ", " ", "S", "e", "L", "e", "C", "t", " ", "1", "\n">>
SqlSelectx == <<"s", "e", "l", "e", "c", "t", "x">>
SqlSelectThenDrop == <<"s", "e", "l", "e", "c", "t", " ", "1", ";", " ", "D", "R", "O", "P", " ", "T", "A", "B", "L", "E", " ", "c", "l", "i", "e", "n", "t", "e", "s">>
SqlParenSelect == <<"(", "s", "e", "l", "e", "c", "t", " ", "1", ")">>
SqlSelec == <<"s", "e", "l", "e", "c">>
SqlVtSelect == <<VT, "s", "e", "l", "e", "c", "t", " ", "1">>
SqlNbspSelect == <<NBSP, "S", "E", "L", "E", "C", "T", " ", "1", "U+2003">>

\* bodies of POST /sql (SQLRequest.sql)
SqlInputs == {<<>>, SqlDrop, SqlSelectPadded, SqlSelectx, SqlSelectThenDrop,
              SqlParenSelect, SqlSelec, SqlVtSelect, SqlNbspSelect}

\* bodies of POST /consulta (ConsultaRequest.pregunta); opaque to the code
Preguntas == {"Cuales son los 5 clientes con mas compras?"}

TxtFenced == <<BQ, BQ, BQ, "s", "q", "l", "\n", "S", "E", "L", "E", "C", "T", " ", "1", "\n", BQ, BQ, BQ>>
TxtPadded == <<" ", "S", "E", "L", "E", "C", "T", " ", "1", " ">>
TxtProse == <<"L", "o", " ", "s", "i", "e", "n", "t", "o">>
TxtDropFenced == <<BQ, BQ, BQ, "\n", "D", "R", "O", "P", " ", "T", "A", "B", "L", "E", " ", "c", "l", "i", "e", "n", "t", "e", "s", "\n", BQ, BQ, BQ>>

\* msg.content[0].text of the completions the model API returns to generar_sql
SqlCompletions == {TxtFenced, TxtPadded, TxtProse, TxtDropFenced}

ResumenRaw == <<" ", "H", "a", "y", " ", "d", "a", "t", "o", "s", ".", "\n">>

\* msg.content[0].text of the completions returned to generar_resumen
ResumenCompletions == {ResumenRaw}

\* completions for the post-processing of generar_sql taken alone: every
\* concatenation of at most MaxChunks of these pieces
Chunks == {Fence, <<BQ>>, <<"s", "q", "l">>, <<"s">>, <<"q", "l">>, <<"S">>, <<" ">>, <<"\n">>,
           <<VT>>, <<"U+3000">>}

RECURSIVE TextsUpTo(_)
TextsUpTo(k) ==
    IF k = 0 THEN {<<>>}
    ELSE LET shorter == TextsUpTo(k - 1)
         IN  shorter \cup {c \o t : c \in Chunks, t \in shorter}

(***************************************************************************)
(* The database behind `engine` (lines 25-30).  It is outside the          *)
(* repository; what the handlers observe of it is modelled here.           *)
(***************************************************************************)
TClientes == <<"c", "l", "i", "e", "n", "t", "e", "s">>
TOficinas == <<"o", "f", "i", "c", "i", "n", "a", "s">>
TRepventas == <<"r", "e", "p", "v", "e", "n", "t", "a", "s">>
TPedidos == <<"p", "e", "d", "i", "d", "o", "s">>
TProductos == <<"p", "r", "o", "d", "u", "c", "t", "o", "s">>

\* the five tables of DB_SCHEMA
SchemaTables == {TClientes, TOficinas, TRepventas, TPedidos, TProductos}

KwDrop == <<"d", "r", "o", "p">>
KwTable == <<"t", "a", "b", "l", "e">>
KwInsert == <<"i", "n", "s", "e", "r", "t">>
KwUpdate == <<"u", "p", "d", "a", "t", "e">>
KwDelete == <<"d", "e", "l", "e", "t", "e">>

\* the maximal non-empty pieces of s between characters of seps
RECURSIVE SplitOn(_, _)
SplitOn(s, seps) ==
    IF s = <<>> THEN <<>>
    ELSE IF s[1] \in seps THEN SplitOn(Tail(s), seps)
    ELSE LET stops == {i \in 1..Len(s) : s[i] \in seps}
             end == IF stops = {} THEN Len(s) + 1
                    ELSE CHOOSE i \in stops : \A j \in stops : i <= j
         IN  <<SubSeq(s, 1, end - 1)>> \o SplitOn(SubSeq(s, end, Len(s)), seps)

\* the characters the server's lexer skips between words
SqlWS == {" ", "\t", "\n", "\r", "\f", VT}

Words(s) == SplitOn(s, SqlWS)

\* the statements of a text: its pieces between semicolons that hold a word
Statements(s) == SelectSeq(SplitOn(s, {";"}), LAMBDA st : Words(st) /= <<>>)

\* what the server does with one statement: "select", "drop" or "error"
StmtKind(st, tables) ==
    LET w == Words(st)
    IN  IF Lower(w[1]) = SelectKw THEN "select"
        ELSE IF /\ Len(w) = 3
                /\ Lower(w[1]) = KwDrop
                /\ Lower(w[2]) = KwTable
                /\ w[3] \in tables THEN "drop"
        ELSE "error"

\* the statements run in order; the first error stops the batch.  DROP TABLE
\* commits implicitly, so what ran before an error stays done.
RECURSIVE RunStatements(_, _)
RunStatements(sts, tables) ==
    IF sts = <<>> THEN [ok |-> TRUE, tables |-> tables]
    ELSE LET k == StmtKind(sts[1], tables)
         IN  IF k = "error" THEN [ok |-> FALSE, tables |-> tables]
             ELSE IF k = "drop"
                  THEN RunStatements(Tail(sts), tables \ {Words(sts[1])[3]})
             ELSE RunStatements(Tail(sts), tables)

\* a row as the driver returns it (a RowMapping): column name -> value
Row(v) == [Num_Clie |-> v]

\* a result set of n rows, in the order the database returns them
ResultSet(n) == [i \in 1..n |-> Row(n + 1 - i)]

\* the result sets the database answers a SELECT with
RowCounts == {0, 2, MaxRows}

\* conn.execute(text(sql)) (lines 150, 173, 193): the outcomes the database
\* can produce.  ok = FALSE is an exception raised by execute; rows is the
\* result when returnsRows.  A connection or server error is possible at any
\* call; a text of several statements runs only when the driver allows
\* multi-statement queries, otherwise it is an error.
DbExecute(sql, tables) ==
    LET sts == Statements(sql)
        failed == [ok |-> FALSE, returnsRows |-> FALSE, rows |-> <<>>, tables |-> tables]
        run == RunStatements(sts, tables)
    IN  {failed} \cup
        IF sts = <<>> THEN {}
        ELSE IF ~run.ok
             THEN {[ok |-> FALSE, returnsRows |-> FALSE, rows |-> <<>>, tables |-> run.tables]}
        ELSE IF StmtKind(sts[1], tables) = "select"
             THEN {[ok |-> TRUE, returnsRows |-> TRUE, rows |-> ResultSet(n), tables |-> run.tables]
                     : n \in RowCounts}
        ELSE {[ok |-> TRUE, returnsRows |-> FALSE, rows |-> <<>>, tables |-> run.tables]}

\* execute(...).mappings().all() (lines 173, 193): a result that returns no
\* rows raises in mappings(), after the statement has run
FetchAll(out) ==
    IF out.ok /\ ~out.returnsRows THEN [out EXCEPT !.ok = FALSE] ELSE out

(***************************************************************************)
(* Pure parts of the handlers                                              *)
(***************************************************************************)
\* [dict(r) for r in rows], lines 174 and 194
Dict(r) == [c \in DOMAIN r |-> r[c]]

\* variant: the rows are collected in reverse
ToDicts_reversed(rows) == [i \in 1..Len(rows) |-> Dict(rows[Len(rows) + 1 - i])]

ToDicts(rows) == [i \in 1..Len(rows) |-> Dict(rows[i])]

\* the gate of ejecutar_sql, line 189
\* variant: "select" in sql.strip().lower()
PassesGate_contains(sql) == Contains(Lower(Strip(sql)), SelectKw)

PassesGate(sql) == StartsWith(Lower(Strip(sql)), SelectKw)

SampleSize == 10

\* resultado[:10], line 115
Muestra(resultado) ==
    SubSeq(resultado, 1, IF Len(resultado) < SampleSize THEN Len(resultado) ELSE SampleSize)

\* line 116: <<10, n>> stands for " (mostrando 10 de n)", <<>> for ""
\* variant: the note is added from 10 rows on
Extra_atLeast(resultado) ==
    IF Len(resultado) >= SampleSize THEN <<SampleSize, Len(resultado)>> ELSE <<>>

Extra(resultado) ==
    IF Len(resultado) > SampleSize THEN <<SampleSize, Len(resultado)>> ELSE <<>>

\* the prompt of generar_resumen, lines 117-122
ResumenPrompt(pregunta, resultado, sql) ==
    [pregunta |-> pregunta, sql |-> sql, extra |-> Extra(resultado),
     muestra |-> Muestra(resultado)]

NoPrompt == [pregunta |-> "", sql |-> <<>>, extra |-> <<>>, muestra |-> <<>>]


(***************************************************************************)
(* Requests, calls and responses                                           *)
(***************************************************************************)
\* one outbound call of a handler: target is "generar_sql", "db" or
\* "generar_resumen"; ok = FALSE when the call raised
Call(target, ok, sql, prompt, text, rows) ==
    [target |-> target, ok |-> ok, sql |-> sql, prompt |-> prompt,
     text |-> text, rows |-> rows]

\* the JSON a handler answers with: keys are the fields of the body, the
\* other fields their values (empty when the key is absent)
NoResp == [status |-> 0, keys |-> {}, pregunta |-> "", sql |-> <<>>, total |-> 0,
           resultado |-> <<>>, resumen |-> <<>>, tablas |-> <<>>]

\* raise HTTPException(status_code=status, detail=...)
ErrorResp(status) == [NoResp EXCEPT !.status = status, !.keys = {"detail"}]

StatusOk == 200

IdleReq == [kind |-> "none", pc |-> "idle", pregunta |-> "", sqlIn |-> <<>>,
            sql |-> <<>>, resultado |-> <<>>, calls |-> <<>>, resp |-> NoResp]

\* the five names of tablas(), line 158
\* variant: productos is missing from the list
TablasNames_four == <<TClientes, TOficinas, TRepventas, TPedidos>>

TablasNames == <<TClientes, TOficinas, TRepventas, TPedidos, TProductos>>

PureUnchanged == UNCHANGED <<genRaw, genOut, genPc, resArgs, resPrompt, resPc>>

Init ==
    /\ req = [r \in Reqs |-> IdleReq]
    /\ db = SchemaTables
    /\ genRaw = <<>> /\ genOut = <<>> /\ genPc = "off"
    /\ resArgs = [pregunta |-> "", resultado |-> <<>>, sql |-> <<>>]
    /\ resPrompt = NoPrompt /\ resPc = "off"

(***************************************************************************)
(* Handlers                                                                *)
(***************************************************************************)
\* GET /
Home(r) ==
    /\ req[r].pc = "idle"
    /\ req' = [req EXCEPT ![r] = [@ EXCEPT !.kind = "home", !.pc = "done",
                  !.resp = [NoResp EXCEPT !.status = StatusOk,
                                          !.keys = {"status", "endpoints"}]]]
    /\ UNCHANGED db
    /\ PureUnchanged

\* variant of health: the exception of execute is swallowed
Health_alwaysOk(r) ==
    /\ req[r].pc = "idle"
    /\ \E out \in DbExecute(SelectOne, db) :
         /\ req' = [req EXCEPT ![r] = [@ EXCEPT !.kind = "health", !.pc = "done",
                       !.calls = <<Call("db", out.ok, SelectOne, NoPrompt, <<>>, out.rows)>>,
                       !.resp = [NoResp EXCEPT !.status = StatusOk,
                                               !.keys = {"estado", "base_de_datos"}]]]
         /\ db' = out.tables
    /\ PureUnchanged

\* GET /health
Health(r) ==
    /\ req[r].pc = "idle"
    /\ \E out \in DbExecute(SelectOne, db) :
         /\ req' = [req EXCEPT ![r] = [@ EXCEPT !.kind = "health", !.pc = "done",
                       !.calls = <<Call("db", out.ok, SelectOne, NoPrompt, <<>>, out.rows)>>,
                       !.resp = IF out.ok
                                THEN [NoResp EXCEPT !.status = StatusOk,
                                                    !.keys = {"estado", "base_de_datos"}]
                                ELSE ErrorResp(500)]]
         /\ db' = out.tables
    /\ PureUnchanged

\* GET /tablas
Tablas(r) ==
    /\ req[r].pc = "idle"
    /\ req' = [req EXCEPT ![r] = [@ EXCEPT !.kind = "tablas", !.pc = "done",
                  !.resp = [NoResp EXCEPT !.status = StatusOk,
                                          !.keys = {"tablas", "descripcion"},
                                          !.tablas = TablasNames]]]
    /\ UNCHANGED db
    /\ PureUnchanged

\* POST /sql
EjecutarSql(r) ==
    /\ req[r].pc = "idle"
    /\ \E sql \in SqlInputs :
         IF ~PassesGate(sql)
         THEN /\ req' = [req EXCEPT ![r] = [@ EXCEPT !.kind = "sql", !.pc = "done",
                            !.sqlIn = sql, !.resp = ErrorResp(400)]]
              /\ UNCHANGED db
         ELSE \E ex \in DbExecute(sql, db) :
                LET out == FetchAll(ex)
                    resultado == ToDicts(out.rows)
                IN  /\ req' = [req EXCEPT ![r] = [@ EXCEPT !.kind = "sql", !.pc = "done",
                                  !.sqlIn = sql,
                                  !.calls = <<Call("db", out.ok, sql, NoPrompt, <<>>, out.rows)>>,
                                  !.resultado = IF out.ok THEN resultado ELSE <<>>,
                                  !.resp = IF out.ok
                                           THEN [NoResp EXCEPT !.status = StatusOk,
                                                    !.keys = {"sql", "total_registros", "resultado"},
                                                    !.sql = sql,
                                                    !.total = Len(resultado),
                                                    !.resultado = resultado]
                                           ELSE ErrorResp(400)]]
                    /\ db' = out.tables
    /\ PureUnchanged

\* variant: a failure of generar_sql is swallowed and the handler goes on
\* with an empty statement
ConsultaGenerarSql_swallow(r) ==
    /\ req[r].pc = "idle"
    /\ \E p \in Preguntas :
         LET prompt == [NoPrompt EXCEPT !.pregunta = p]
         IN  \/ req' = [req EXCEPT ![r] = [@ EXCEPT !.kind = "consulta", !.pc = "execute",
                           !.pregunta = p,
                           !.calls = <<Call("generar_sql", FALSE, <<>>, prompt, <<>>, <<>>)>>]]
             \/ \E raw \in SqlCompletions :
                  req' = [req EXCEPT ![r] = [@ EXCEPT !.kind = "consulta", !.pc = "execute",
                             !.pregunta = p,
                             !.sql = PostProcess(raw),
                             !.calls = <<Call("generar_sql", TRUE, <<>>, prompt, raw, <<>>)>>]]
    /\ UNCHANGED db
    /\ PureUnchanged

\* POST /consulta, line 171: generar_sql(request.pregunta)
ConsultaGenerarSql(r) ==
    /\ req[r].pc = "idle"
    /\ \E p \in Preguntas :
         LET prompt == [NoPrompt EXCEPT !.pregunta = p]
         IN  \/ req' = [req EXCEPT ![r] = [@ EXCEPT !.kind = "consulta", !.pc = "done",
                           !.pregunta = p,
                           !.calls = <<Call("generar_sql", FALSE, <<>>, prompt, <<>>, <<>>)>>,
                           !.resp = ErrorResp(500)]]
             \/ \E raw \in SqlCompletions :
                  req' = [req EXCEPT ![r] = [@ EXCEPT !.kind = "consulta", !.pc = "execute",
                             !.pregunta = p,
                             !.sql = PostProcess(raw),
                             !.calls = <<Call("generar_sql", TRUE, <<>>, prompt, raw, <<>>)>>]]
    /\ UNCHANGED db
    /\ PureUnchanged

\* variant: the gate of ejecutar_sql is applied to the generated statement
ConsultaExecute_gated(r) ==
    /\ req[r].pc = "execute"
    /\ IF ~PassesGate(req[r].sql)
       THEN /\ req' = [req EXCEPT ![r] = [@ EXCEPT !.pc = "done", !.resp = ErrorResp(500)]]
            /\ UNCHANGED db
       ELSE \E ex \in DbExecute(req[r].sql, db) :
              LET out == FetchAll(ex)
              IN  /\ req' = [req EXCEPT ![r] = [@ EXCEPT
                                !.pc = IF out.ok THEN "resumen" ELSE "done",
                                !.calls = Append(@, Call("db", out.ok, req[r].sql, NoPrompt, <<>>, out.rows)),
                                !.resultado = IF out.ok THEN ToDicts(out.rows) ELSE <<>>,
                                !.resp = IF out.ok THEN NoResp ELSE ErrorResp(500)]]
                  /\ db' = out.tables
    /\ PureUnchanged

\* POST /consulta, lines 172-174: execute the generated statement.  The
\* call record stands for the with-block: ok = FALSE also when connect fails.
ConsultaExecute(r) ==
    /\ req[r].pc = "execute"
    /\ \E ex \in DbExecute(req[r].sql, db) :
         LET out == FetchAll(ex)
         IN  /\ req' = [req EXCEPT ![r] = [@ EXCEPT
                           !.pc = IF out.ok THEN "resumen" ELSE "done",
                           !.calls = Append(@, Call("db", out.ok, req[r].sql, NoPrompt, <<>>, out.rows)),
                           !.resultado = IF out.ok THEN ToDicts(out.rows) ELSE <<>>,
                           !.resp = IF out.ok THEN NoResp ELSE ErrorResp(500)]]
             /\ db' = out.tables
    /\ PureUnchanged

\* variant: when generar_resumen fails the rows are returned without summary
ConsultaResumen_partial(r) ==
    /\ req[r].pc = "resumen"
    /\ LET q == req[r]
           prompt == ResumenPrompt(q.pregunta, q.resultado, q.sql)
           body(resumen) == [NoResp EXCEPT !.status = StatusOk,
                                !.keys = {"pregunta", "sql_generado", "total", "resultado", "resumen"},
                                !.pregunta = q.pregunta, !.sql = q.sql,
                                !.total = Len(q.resultado), !.resultado = q.resultado,
                                !.resumen = resumen]
       IN  \/ req' = [req EXCEPT ![r] = [@ EXCEPT !.pc = "done",
                         !.calls = Append(@, Call("generar_resumen", FALSE, <<>>, prompt, <<>>, <<>>)),
                         !.resp = body(<<>>)]]
           \/ \E raw \in ResumenCompletions :
                req' = [req EXCEPT ![r] = [@ EXCEPT !.pc = "done",
                           !.calls = Append(@, Call("generar_resumen", TRUE, <<>>, prompt, raw, <<>>)),
                           !.resp = body(Strip(raw))]]
    /\ UNCHANGED db
    /\ PureUnchanged

\* POST /consulta, lines 175-184: generar_resumen and the response
ConsultaResumen(r) ==
    /\ req[r].pc = "resumen"
    /\ LET q == req[r]
           prompt == ResumenPrompt(q.pregunta, q.resultado, q.sql)
       IN  \/ req' = [req EXCEPT ![r] = [@ EXCEPT !.pc = "done",
                         !.calls = Append(@, Call("generar_resumen", FALSE, <<>>, prompt, <<>>, <<>>)),
                         !.resp = ErrorResp(500)]]
           \/ \E raw \in ResumenCompletions :
                req' = [req EXCEPT ![r] = [@ EXCEPT !.pc = "done",
                           !.calls = Append(@, Call("generar_resumen", TRUE, <<>>, prompt, raw, <<>>)),
                           !.resp = [NoResp EXCEPT !.status = StatusOk,
                                        !.keys = {"pregunta", "sql_generado", "total", "resultado", "resumen"},
                                        !.pregunta = q.pregunta, !.sql = q.sql,
                                        !.total = Len(q.resultado), !.resultado = q.resultado,
                                        !.resumen = Strip(raw)]]]
    /\ UNCHANGED db
    /\ PureUnchanged

Next ==
    \E r \in Reqs :
        \/ Home(r)
        \/ Health(r)
        \/ Tablas(r)
        \/ EjecutarSql(r)
        \/ ConsultaGenerarSql(r)
        \/ ConsultaExecute(r)
        \/ ConsultaResumen(r)

Spec == Init /\ [][Next]_vars

(***************************************************************************)
(* generar_sql's post-processing taken alone, over every completion built  *)
(* from at most MaxChunks chunks                                           *)
(***************************************************************************)
MainUnchanged == UNCHANGED <<req, db>>

InitGen ==
    /\ req = [r \in Reqs |-> IdleReq]
    /\ db = SchemaTables
    /\ genRaw \in TextsUpTo(MaxChunks) /\ genOut = <<>> /\ genPc = "completion"
    /\ resArgs = [pregunta |-> "", resultado |-> <<>>, sql |-> <<>>]
    /\ resPrompt = NoPrompt /\ resPc = "off"

\* lines 109-110
GenerarSqlReturn ==
    /\ genPc = "completion"
    /\ genOut' = PostProcess(genRaw)
    /\ genPc' = "returned"
    /\ UNCHANGED <<genRaw, resArgs, resPrompt, resPc>>
    /\ MainUnchanged

NextGen == GenerarSqlReturn

SpecGen == InitGen /\ [][NextGen]_vars

(***************************************************************************)
(* generar_resumen's prompt taken alone, over every result set of at most  *)
(* MaxRows rows                                                            *)
(***************************************************************************)
InitRes ==
    /\ req = [r \in Reqs |-> IdleReq]
    /\ db = SchemaTables
    /\ genRaw = <<>> /\ genOut = <<>> /\ genPc = "off"
    /\ resArgs \in [pregunta : Preguntas,
                    resultado : {[i \in 1..n |-> Dict(Row(n + 1 - i))] : n \in 0..MaxRows}
                                \cup {[i \in 1..n |-> Dict(Row(i))] : n \in 0..MaxRows},
                    sql : {PostProcess(raw) : raw \in SqlCompletions}]
    /\ resPrompt = NoPrompt /\ resPc = "called"

\* lines 115-122
GenerarResumenPrompt ==
    /\ resPc = "called"
    /\ resPrompt' = ResumenPrompt(resArgs.pregunta, resArgs.resultado, resArgs.sql)
    /\ resPc' = "prompted"
    /\ UNCHANGED <<resArgs, genRaw, genOut, genPc>>
    /\ MainUnchanged

NextRes == GenerarResumenPrompt

SpecRes == InitRes /\ [][NextRes]_vars


(***************************************************************************)
(* Properties                                                              *)
(***************************************************************************)
Targets(r) == [i \in 1..Len(req[r].calls) |-> req[r].calls[i].target]

DbCalls(r) == SelectSeq(req[r].calls, LAMBDA c : c.target = "db")

SomeCallFailed(r) == \E i \in 1..Len(req[r].calls) : ~req[r].calls[i].ok

IsPrefix(s, t) == Len(s) <= Len(t) /\ SubSeq(t, 1, Len(s)) = s

\* C1: a /sql request whose text, trimmed and lower-cased, does not start
\* with "select" is answered 400 and makes no database call.
Inv_C1 ==
    \A r \in Reqs :
        (req[r].kind = "sql" /\ ~StartsWith(Lower(Strip(req[r].sqlIn)), SelectKw))
        => /\ req[r].pc = "done"
           /\ req[r].resp.status = 400
           /\ req[r].calls = <<>>

Wit_C1 ==
    \E r \in Reqs : req[r].kind = "sql" /\ req[r].sqlIn = SqlDrop /\ req[r].pc = "done"

\* C2: in a /consulta request the calls are a prefix of (model call for the
\* SQL, database execution, model call for the summary), a call is made only
\* when every earlier call succeeded, and a successful request made all
\* three in that order.
Inv_C2 ==
    \A r \in Reqs :
        req[r].kind = "consulta"
        => /\ IsPrefix(Targets(r), <<"generar_sql", "db", "generar_resumen">>)
           /\ \A i \in 1..(Len(req[r].calls) - 1) : req[r].calls[i].ok
           /\ req[r].resp.status = 200
              => /\ Len(req[r].calls) = 3
                 /\ \A i \in 1..3 : req[r].calls[i].ok

Wit_C2 ==
    /\ \E r \in Reqs : /\ req[r].kind = "consulta" /\ req[r].pc = "done"
                       /\ Len(req[r].calls) = 1 /\ ~req[r].calls[1].ok
    /\ \E r \in Reqs : /\ req[r].kind = "consulta" /\ req[r].pc = "done"
                       /\ Len(req[r].calls) = 2 /\ ~req[r].calls[2].ok

\* C3: a request one of whose calls failed is finished with an error
\* response that carries only the detail (no rows, no summary); its status
\* is 500 on /consulta and /health and 400 on /sql.
Inv_C3 ==
    \A r \in Reqs :
        SomeCallFailed(r)
        => /\ req[r].pc = "done"
           /\ req[r].resp.keys = {"detail"}
           /\ req[r].resp.resultado = <<>>
           /\ req[r].resp.resumen = <<>>
           /\ req[r].kind \in {"consulta", "health"} => req[r].resp.status = 500
           /\ req[r].kind = "sql" => req[r].resp.status = 400

Wit_C3 ==
    /\ \E r \in Reqs : /\ req[r].kind = "consulta" /\ Len(req[r].calls) = 3
                       /\ ~req[r].calls[3].ok
    /\ \E r \in Reqs : /\ req[r].kind = "sql" /\ SomeCallFailed(r)

\* a text none of whose statements begins with a writing keyword (the four
\* of line 100)
ReadOnlyText(t) ==
    \A i \in 1..Len(Statements(t)) :
        Lower(Words(Statements(t)[i])[1]) \notin {KwInsert, KwUpdate, KwDelete, KwDrop}

\* C4: every text ejecutar_sql passes to the database is read-only, and as
\* long as no /consulta request was made the database is unchanged.
Inv_C4 ==
    /\ \A r \in Reqs :
          req[r].kind = "sql"
          => \A i \in 1..Len(req[r].calls) : ReadOnlyText(req[r].calls[i].sql)
    /\ (\A r \in Reqs : req[r].kind /= "consulta") => db = SchemaTables

\* C5: a successful /sql response has total_registros equal to the length of
\* resultado, and resultado holds the rows the database returned, in order.
Inv_C5 ==
    \A r \in Reqs :
        (req[r].kind = "sql" /\ req[r].resp.status = 200)
        => /\ PassesGate(req[r].sqlIn)
           /\ req[r].resp.total = Len(req[r].resp.resultado)
           /\ Len(req[r].calls) = 1
           /\ Len(req[r].resp.resultado) = Len(req[r].calls[1].rows)
           /\ \A i \in 1..Len(req[r].resp.resultado) :
                 req[r].resp.resultado[i] = req[r].calls[1].rows[i]

Wit_C5 ==
    \E r \in Reqs : /\ req[r].kind = "sql" /\ req[r].resp.status = 200
                    /\ req[r].resp.total = MaxRows

\* C6: /health answers the ok status exactly when its SELECT 1 succeeded,
\* and answers 500 otherwise.
Inv_C6 ==
    \A r \in Reqs :
        req[r].kind = "health"
        => /\ req[r].pc = "done"
           /\ Len(req[r].calls) = 1
           /\ req[r].calls[1].target = "db"
           /\ req[r].calls[1].sql = <<"S", "E", "L", "E", "C", "T", " ", "1">>
           /\ (req[r].resp.status = 200 /\ "estado" \in req[r].resp.keys)
                 <=> req[r].calls[1].ok
           /\ ~req[r].calls[1].ok => req[r].resp.status = 500

Wit_C6 ==
    /\ \E r \in Reqs : req[r].kind = "health" /\ req[r].resp.status = 200
    /\ \E r \in Reqs : req[r].kind = "health" /\ req[r].resp.status = 500

\* C7: /tablas answers exactly the five fixed names and makes no call,
\* whatever the database holds.
Inv_C7 ==
    \A r \in Reqs :
        req[r].kind = "tablas"
        => /\ req[r].resp.status = 200
           /\ req[r].resp.tablas = <<TClientes, TOficinas, TRepventas, TPedidos, TProductos>>
           /\ req[r].calls = <<>>

Wit_C7 ==
    \E r \in Reqs : req[r].kind = "tablas" /\ req[r].pc = "done" /\ TClientes \notin db

\* C8: the prompt of generar_resumen holds the first min(10, n) rows of the
\* n-row result in their order, and holds the note (10 of n) exactly when
\* n > 10.
Inv_C8 ==
    resPc = "prompted"
    => LET rows == resArgs.resultado
           n == Len(rows)
           m == IF n < 10 THEN n ELSE 10
       IN  /\ Len(resPrompt.muestra) = m
           /\ \A i \in 1..m : resPrompt.muestra[i] = rows[i]
           /\ (resPrompt.extra /= <<>>) <=> (n > 10)
           /\ n > 10 => resPrompt.extra = <<10, n>>

Wit_C8 ==
    resPc = "prompted" /\ Len(resArgs.resultado) = 10 /\ resPrompt.extra = <<>>

\* C9: what generar_sql returns holds no code fence and neither starts nor
\* ends with whitespace.
Inv_C9 ==
    genPc = "returned"
    => /\ \A i \in 1..(Len(genOut) - 2) :
             ~(genOut[i] = BQ /\ genOut[i + 1] = BQ /\ genOut[i + 2] = BQ)
       /\ genOut /= <<>> => (genOut[1] \notin WS /\ genOut[Len(genOut)] \notin WS)

Wit_C9 ==
    /\ genPc = "returned"
    /\ StartsWith(genRaw, FenceSql \o <<"\n">>)
    /\ Len(genOut) = 1

\* C10: once generar_sql has succeeded and the handler has moved on, the
\* database was handed exactly one statement, the post-processed completion,
\* whether or not it starts with SELECT; before that it was handed none.
Inv_C10 ==
    \A r \in Reqs :
        (req[r].kind = "consulta" /\ req[r].calls[1].ok)
        => IF req[r].pc = "execute"
           THEN DbCalls(r) = <<>>
           ELSE /\ Len(DbCalls(r)) = 1
                /\ DbCalls(r)[1].sql = Strip(ReSubFences(Strip(req[r].calls[1].text)))

Wit_C10 ==
    \E r \in Reqs : /\ req[r].kind = "consulta"
                    /\ Len(DbCalls(r)) = 1
                    /\ DbCalls(r)[1].sql = SqlDrop
                    /\ TClientes \notin db

====
